---- MODULE Spec2Model ----
(***************************************************************************)
(* degiroasync: the session lifecycle (login, get_config, get_client_info) *)
(* and the authenticated request layer of webapi/webapi.py, with the       *)
(* domain readers of api/orders.py, as coroutines running on one asyncio   *)
(* event loop against one shared SessionCore object.                       *)
(*                                                                         *)
(* A coroutine runs without interruption from one await of network I/O to  *)
(* the next, so every action below is one such run: it starts at a call or *)
(* at the arrival of a response and ends at the next request sent, at a    *)
(* return or at a raise.  The server and the transport are the             *)
(* environment: the response of a request is chosen by \E.                 *)
(***************************************************************************)
EXTENDS Integers, Sequences, FiniteSets, TLC

VARIABLES
    session,    \* the SessionCore object shared by every call
    calls       \* task -> the frame of the call the task runs (or ran last)

vars == <<session, calls>>

\* the tasks of the event loop that may run calls concurrently
Tasks == {"t1", "t2"}

-----------------------------------------------------------------------------
(* Values *)

\* Python's None; every optional value is None or a record / function
None == [none |-> TRUE]

\* SessionCore.JSESSIONID, the name of the session-identifying cookie
JSESSIONID == "JSESSIONID"

\* session identifiers the server may issue
SessionIds == {"sidA", "sidB"}

\* a cookie jar (httpx.Cookies): cookie name -> value
EmptyJar == <<>>

JarOf(sid) == (JSESSIONID :> sid)

Jars == {EmptyJar} \cup {JarOf(s) : s \in SessionIds}

\* Credentials: totp_secret and one_time_password are optional
GoodSecret == [b32 |-> "JBSWY3DP"]

BadSecret == [b32 |-> "not-base32"]

CallerCode == [kind |-> "str", val |-> "123456"]

Credentials ==
    [totp_secret : {None, GoodSecret}, one_time_password : {None, CallerCode}]
        \cup {[totp_secret |-> BadSecret, one_time_password |-> None]}

\* values of time.time() the TOTP generator may read during a login
Times == {59}

\* the transport raising instead of returning a response
TransportFailure == [transport |-> "failed"]

\* an httpx.Response: status_code, the 'status' of the JSON load, cookies, 'data'
Response(code, status, cookies, data) ==
    [code |-> code, status |-> status, cookies |-> cookies, data |-> data]

\* the (status_code, status) pairs a server answers with
Answers ==
    {<<"OK", "SUCCESS">>, <<"OK", "ERROR">>, <<"ERR", "ERROR">>,
     <<"ERR", "TOTP_NEEDED">>}

\* what the login and the challenge endpoint may answer
LoginResponses ==
    {Response(a[1], a[2], j, None) : a \in Answers, j \in Jars}
        \cup {TransportFailure}

\* a request as the transport sees it
Request(url, cookies, params, otp) ==
    [url |-> url, cookies |-> cookies, params |-> params, otp |-> otp]

\* Config(data) and PAClient(data), as the server fills them
ConfigData(sid) ==
    {[sessionId |-> sid, productSearchUrl |-> u, clientId |-> "token"] :
        u \in {[url |-> "productSearch"]}}

ClientData == {[intAccount |-> "acct"]}

\* the frame of a task that runs no call
Idle ==
    [op |-> "none", pc |-> "idle", creds |-> None, response |-> None,
     reqs |-> <<>>, nreq |-> 0, outcome |-> "none", mfa |-> FALSE,
     fetch |-> <<>>, arrived |-> <<>>, args |-> None, data |-> <<>>,
     products |-> None, result |-> None]

\* SessionCore(): a session as constructed, nothing populated
NewSession == [cookies |-> EmptyJar, config |-> None, client |-> None]

\* a session the caller supplies: one an earlier login, get_config and
\* get_client_info left behind
EnrichedSession ==
    [cookies |-> JarOf("sidA"),
     config |-> [sessionId |-> "sidA",
                 productSearchUrl |-> [url |-> "productSearch"],
                 clientId |-> "token"],
     client |-> [intAccount |-> "acct"]]

-----------------------------------------------------------------------------
(* Helpers *)

\* core.helpers.check_response: TRUE when the response passes validation
check_response(response) ==
    response.code = "OK" /\ response.status = "SUCCESS"

\* core.check_session_config: TRUE when it does not raise
check_session_config(s) == s.config # None

\* _check_active_session as it would be if it never raised
_check_active_session_Never(s) == TRUE

\* webapi._check_active_session: TRUE when it does not raise
_check_active_session(s) == JSESSIONID \in DOMAIN s.cookies

\* stand-in for hmac.new(key, message, sha1).digest() seen through the dynamic
\* truncation: the big-endian 32-bit word at offset o of the digest of
\* (key, counter), as its top bit and its low 31 bits
HmacWindow(key, counter) ==
    [top |-> counter % 2,
     low |-> IF key = "JBSWY3DP"
                THEN (counter + 1) * 1299709 + 15485863
                ELSE (counter + 1) * 15485863 + 1299709]

\* base64.b32decode: TRUE when the secret decodes
B32Valid(secret_key) == secret_key.b32 \in {"JBSWY3DP", "GEZDGNBV"}

\* _get_totp_token as it would be if it hashed the second and not the
\* 30-second window
_get_totp_token_PerSecond(secret_key, now) ==
    LET word == HmacWindow(secret_key.b32, now)
    IN  [kind |-> "int", val |-> word.low % 1000000]

\* webapi._get_totp_token, with time.time() passed in as `now`
_get_totp_token(secret_key, now) ==
    LET word == HmacWindow(secret_key.b32, now \div 30)
    IN  [kind |-> "int", val |-> word.low % 1000000]

-----------------------------------------------------------------------------
(* Call frames *)

Running(t) == calls[t].pc \notin {"idle", "done"}

\* a call is run by the first task that runs none: which task object the
\* event loop wraps a call in is immaterial
Free(t) ==
    /\ ~Running(t)
    /\ \A u \in Tasks : (u = "t1" /\ t = "t2") => Running(u)

\* the frame of a call that has sent its first request(s) and awaits
Sent(op, requests) ==
    [Idle EXCEPT !.op = op, !.pc = "await1", !.reqs = requests,
                 !.nreq = Len(requests)]

\* the frame of a call that returned or raised: its locals are gone, what is
\* left is the outcome, the responses it received and how many requests it
\* sent
Finish(frame, outcome) ==
    [Idle EXCEPT !.op = frame.op, !.pc = "done", !.outcome = outcome,
                 !.response = frame.response, !.nreq = frame.nreq,
                 !.mfa = frame.mfa, !.fetch = frame.fetch,
                 !.arrived = frame.arrived, !.data = frame.data,
                 !.result = frame.result]

\* the frame of a call that raised before it sent anything
Raised(op, error) == Finish([Idle EXCEPT !.op = op], error)

\* what an awaited request ends in: the transport's error, the error of
\* check_response, or "pass"
Validate(response) ==
    IF response = TransportFailure THEN "TransportError"
    ELSE IF ~check_response(response) THEN "ApiStatusError"
    ELSE "pass"

-----------------------------------------------------------------------------
(* login *)

\* login as it would be without the cookie requirement of its last lines
LoginTerminal_NoCookieCheck(s, response) ==
    IF Validate(response) # "pass"
        THEN [session |-> s, outcome |-> Validate(response)]
        ELSE [session |-> [s EXCEPT !.cookies = response.cookies],
              outcome |-> "ok"]

\* login as it would be if the cookie were looked up before the response's
\* cookies are stored
LoginTerminal_CheckBeforeStore(s, response) ==
    IF Validate(response) # "pass"
        THEN [session |-> s, outcome |-> Validate(response)]
    ELSE IF JSESSIONID \notin DOMAIN s.cookies
        THEN [session |-> [s EXCEPT !.cookies = response.cookies],
              outcome |-> "NoSessionId"]
    ELSE [session |-> [s EXCEPT !.cookies = response.cookies],
          outcome |-> "ok"]

\* login as it would be without check_response
LoginTerminal_NoValidation(s, response) ==
    IF response = TransportFailure
        THEN [session |-> s, outcome |-> "TransportError"]
    ELSE IF JSESSIONID \notin DOMAIN response.cookies
        THEN [session |-> [s EXCEPT !.cookies = response.cookies],
              outcome |-> "NoSessionId"]
    ELSE [session |-> [s EXCEPT !.cookies = response.cookies],
          outcome |-> "ok"]

\* login as it would be if it returned a session built anew around the
\* cookies
LoginTerminal_FreshSession(s, response) ==
    IF Validate(response) # "pass"
        THEN [session |-> s, outcome |-> Validate(response)]
    ELSE LET s2 == [NewSession EXCEPT !.cookies = response.cookies]
         IN  IF JSESSIONID \notin DOMAIN s2.cookies
                 THEN [session |-> s2, outcome |-> "NoSessionId"]
                 ELSE [session |-> s2, outcome |-> "ok"]

\* login as it would be if it kept the session cookie a session already
\* holds
LoginTerminal_KeepsFirstCookie(s, response) ==
    IF Validate(response) # "pass"
        THEN [session |-> s, outcome |-> Validate(response)]
    ELSE LET s2 == IF JSESSIONID \in DOMAIN s.cookies
                      THEN s ELSE [s EXCEPT !.cookies = response.cookies]
         IN  IF JSESSIONID \notin DOMAIN s2.cookies
                 THEN [session |-> s2, outcome |-> "NoSessionId"]
                 ELSE [session |-> s2, outcome |-> "ok"]

\* the end of login: validate the terminal response, store its cookies,
\* require the session cookie.  Gives the session and the outcome.
LoginTerminal(s, response) ==
    IF Validate(response) # "pass"
        THEN [session |-> s, outcome |-> Validate(response)]
    ELSE LET s2 == [s EXCEPT !.cookies = response.cookies]
         IN  IF JSESSIONID \notin DOMAIN s2.cookies
                 THEN [session |-> s2, outcome |-> "NoSessionId"]
                 ELSE [session |-> s2, outcome |-> "ok"]

\* the TOTP branch as it would be without its first test: the challenge is
\* posted with whatever the credentials hold
Challenge_NoCredentialCheck(credentials, now) ==
    IF credentials.totp_secret # None
        THEN IF B32Valid(credentials.totp_secret)
                THEN [error |-> "pass",
                      otp |-> _get_totp_token(credentials.totp_secret, now)]
                ELSE [error |-> "InvalidSecret", otp |-> None]
    ELSE [error |-> "pass", otp |-> credentials.one_time_password]

\* the TOTP branch as it would be if the caller's code were tested first
Challenge_PreferCallerCode(credentials, now) ==
    IF credentials.totp_secret = None /\ credentials.one_time_password = None
        THEN [error |-> "MissingChallengeCredential", otp |-> None]
    ELSE IF credentials.one_time_password # None
        THEN [error |-> "pass", otp |-> credentials.one_time_password]
    ELSE IF B32Valid(credentials.totp_secret)
        THEN [error |-> "pass",
              otp |-> _get_totp_token(credentials.totp_secret, now)]
        ELSE [error |-> "InvalidSecret", otp |-> None]

\* the branch taken when the account has TOTP enabled: the error raised, or
\* "pass" with the one-time password put in the payload
Challenge(credentials, now) ==
    IF credentials.totp_secret = None /\ credentials.one_time_password = None
        THEN [error |-> "MissingChallengeCredential", otp |-> None]
    ELSE IF credentials.totp_secret # None
        THEN IF B32Valid(credentials.totp_secret)
                THEN [error |-> "pass",
                      otp |-> _get_totp_token(credentials.totp_secret, now)]
                ELSE [error |-> "InvalidSecret", otp |-> None]
    ELSE [error |-> "pass", otp |-> credentials.one_time_password]

\* the challenge post as it would be without cookies=response.cookies
ChallengeRequest_NoCookies(response, otp) ==
    Request("LOGIN_TOTP", EmptyJar, None, otp)

\* the challenge post: the payload with the code, the cookies of the first
\* response
ChallengeRequest(response, otp) ==
    Request("LOGIN_TOTP", response.cookies, None, otp)

\* login called: the credentials are posted to the login endpoint
login(t, credentials) ==
    /\ Free(t)
    /\ calls' = [calls EXCEPT ![t] =
            [Sent("login", <<Request("LOGIN", EmptyJar, None, None)>>)
                EXCEPT !.creds = credentials]]
    /\ UNCHANGED session

\* what login does when the response of the login post arrives: the frame
\* and the session it leaves
LoginFirst(frame, s, response, now) ==
    LET got == [frame EXCEPT !.response = response]
        ch == Challenge(frame.creds, now)
    IN  IF response # TransportFailure /\ response.status = "TOTP_NEEDED"
        THEN IF ch.error # "pass"
             THEN [frame |-> Finish([got EXCEPT !.mfa = TRUE], ch.error),
                   session |-> s]
             ELSE [frame |-> [got EXCEPT
                                !.pc = "await2", !.mfa = TRUE,
                                !.reqs = Append(@, ChallengeRequest(response, ch.otp)),
                                !.nreq = @ + 1],
                   session |-> s]
        ELSE LET end == LoginTerminal(s, response)
             IN  [frame |-> Finish(got, end.outcome), session |-> end.session]

\* the response of the login post arrives
login_first_response(t, response, now) ==
    /\ calls[t].op = "login" /\ calls[t].pc = "await1"
    /\ LET step == LoginFirst(calls[t], session, response, now)
       IN  /\ calls' = [calls EXCEPT ![t] = step.frame]
           /\ session' = step.session

\* the response of the challenge post arrives
login_challenge_response(t, response) ==
    /\ calls[t].op = "login" /\ calls[t].pc = "await2"
    /\ LET end == LoginTerminal(session, response)
       IN  /\ session' = end.session
           /\ calls' = [calls EXCEPT ![t] =
                   Finish([@ EXCEPT !.response = response], end.outcome)]

-----------------------------------------------------------------------------
(* get_config, get_client_info *)

\* what the config and the client-info endpoints may answer to a request
DataResponses(data) ==
    {Response(a[1], a[2], EmptyJar, d) :
        a \in {<<"OK", "SUCCESS">>, <<"ERR", "ERROR">>}, d \in data}
        \cup {TransportFailure}

\* what the config endpoint may answer to a request: the configuration of the
\* server session the request's cookie names, or a failure
ConfigResponses(request) ==
    IF JSESSIONID \in DOMAIN request.cookies
        THEN DataResponses(ConfigData(request.cookies[JSESSIONID]))
        ELSE {Response("ERR", "ERROR", EmptyJar, None), TransportFailure}

\* get_config as it would be if it sent its request without the cookies
get_config_NoCookies(t) ==
    /\ Free(t)
    /\ calls' = [calls EXCEPT ![t] =
            IF ~_check_active_session(session)
                THEN Raised("get_config", "NotAuthenticated")
                ELSE Sent("get_config",
                          <<Request("CONFIG", EmptyJar, None, None)>>)]
    /\ UNCHANGED session

\* get_config called
get_config(t) ==
    /\ Free(t)
    /\ calls' = [calls EXCEPT ![t] =
            IF ~_check_active_session(session)
                THEN Raised("get_config", "NotAuthenticated")
                ELSE Sent("get_config",
                          <<Request("CONFIG", session.cookies, None, None)>>)]
    /\ UNCHANGED session

\* get_config as it would be if it rebuilt the session around the new config
ConfigStore_Rebuild(s, res) ==
    IF Validate(res) # "pass"
        THEN [session |-> s, outcome |-> Validate(res)]
        ELSE [session |-> [NewSession EXCEPT !.cookies = s.cookies,
                                             !.config = res.data],
              outcome |-> "ok"]

\* get_config as it would be if it swallowed the failure of its request
ConfigStore_Swallow(s, res) ==
    IF Validate(res) # "pass"
        THEN [session |-> s, outcome |-> "ok"]
        ELSE [session |-> [s EXCEPT !.config = res.data], outcome |-> "ok"]

\* get_config after its request: the session it leaves and the outcome
ConfigStore(s, res) ==
    IF Validate(res) # "pass"
        THEN [session |-> s, outcome |-> Validate(res)]
        ELSE [session |-> [s EXCEPT !.config = res.data], outcome |-> "ok"]

\* the response of the config endpoint arrives
get_config_response(t) ==
    /\ calls[t].op = "get_config" /\ calls[t].pc = "await1"
    /\ \E res \in ConfigResponses(calls[t].reqs[1]) :
        LET end == ConfigStore(session, res)
        IN  /\ session' = end.session
            /\ calls' = [calls EXCEPT ![t] =
                    Finish([@ EXCEPT !.response = res], end.outcome)]

\* URLs.get_client_info_url: "pass" when it builds the url
get_client_info_url(s) == "pass"

\* get_client_info as it would be if it required the configuration
get_client_info_pre_NeedsConfig(s) ==
    IF ~check_session_config(s) THEN "ConfigNotLoaded"
    ELSE IF JSESSIONID \notin DOMAIN s.cookies THEN "KeyError"
    ELSE "pass"

\* what get_client_info raises before its request, or "pass"
get_client_info_pre(s) ==
    IF get_client_info_url(s) # "pass" THEN get_client_info_url(s)
    ELSE IF JSESSIONID \notin DOMAIN s.cookies THEN "KeyError"
    ELSE "pass"

\* get_client_info called
get_client_info(t) ==
    /\ Free(t)
    /\ calls' = [calls EXCEPT ![t] =
            IF get_client_info_pre(session) # "pass"
                THEN Raised("get_client_info", get_client_info_pre(session))
                ELSE Sent("get_client_info",
                          <<Request("CLIENT_INFO", session.cookies,
                                    [sessionId |-> session.cookies[JSESSIONID]],
                                    None)>>)]
    /\ UNCHANGED session

\* get_client_info as it would be if it stored the data before check_response
ClientStore_StoreFirst(s, res) ==
    IF res = TransportFailure
        THEN [session |-> s, outcome |-> "TransportError"]
        ELSE [session |-> [s EXCEPT !.client = res.data],
              outcome |-> IF Validate(res) # "pass" THEN Validate(res)
                                                    ELSE "ok"]

\* get_client_info after its request: the session it leaves and the outcome
ClientStore(s, res) ==
    IF Validate(res) # "pass"
        THEN [session |-> s, outcome |-> Validate(res)]
        ELSE [session |-> [s EXCEPT !.client = res.data], outcome |-> "ok"]

\* the response of the client-info endpoint arrives
get_client_info_response(t, res) ==
    /\ calls[t].op = "get_client_info" /\ calls[t].pc = "await1"
    /\ LET end == ClientStore(session, res)
       IN  /\ session' = end.session
           /\ calls' = [calls EXCEPT ![t] =
                   Finish([@ EXCEPT !.response = res], end.outcome)]

-----------------------------------------------------------------------------
(* The request layer: webapi reads *)

\* the flags a caller passes to the trading-update endpoint
TradingFlags == {{"transactions"}}

\* what a read endpoint may answer
ReadResponses == DataResponses({[body |-> "json"]})

\* the query parameters as they would be if the session id were read from
\* the cookie
AccountParams_FromCookie(s) ==
    [intAccount |-> s.client.intAccount,
     sessionId |-> IF JSESSIONID \in DOMAIN s.cookies
                      THEN s.cookies[JSESSIONID] ELSE "none"]

\* the intAccount and sessionId query parameters
AccountParams(s) ==
    [intAccount |-> s.client.intAccount, sessionId |-> s.config.sessionId]

\* the url builders of URLs that read the configuration: "pass" when the url
\* is built
get_product_search_url(s) ==
    IF check_session_config(s) THEN "pass" ELSE "ConfigNotLoaded"

get_product_dictionary_url(s) ==
    IF check_session_config(s) THEN "pass" ELSE "ConfigNotLoaded"

get_price_data_url(s) ==
    IF check_session_config(s) THEN "pass" ELSE "ConfigNotLoaded"

get_news_by_company_url(s) ==
    IF check_session_config(s) THEN "pass" ELSE "ConfigNotLoaded"

\* {tradingUrl}/v5/update/{intAccount}
get_portfolio_url(s) ==
    IF check_session_config(s) /\ s.client # None
        THEN "pass" ELSE "ConfigNotLoaded"

\* a call of the request layer: it raises `pre` before any request, or sends
\* `request` and awaits the response
Call(t, op, pre, request) ==
    /\ Free(t)
    /\ calls' = [calls EXCEPT ![t] =
            IF pre # "pass" THEN Raised(op, pre) ELSE Sent(op, <<request>>)]
    /\ UNCHANGED session

\* what each read raises before its request, or "pass"
get_products_info_pre(s) ==
    IF s.config = None THEN "AttributeError"
    ELSE IF s.config.productSearchUrl = None THEN "AssertionError"
    ELSE IF s.client = None THEN "AttributeError"
    ELSE "pass"

get_company_profile_pre(s) ==
    IF s.client = None THEN "AttributeError"
    ELSE IF s.config = None THEN "AttributeError"
    ELSE "pass"

get_news_by_company_pre(s) ==
    IF get_news_by_company_url(s) # "pass" THEN get_news_by_company_url(s)
    ELSE IF s.client = None THEN "AttributeError"
    ELSE IF s.config = None THEN "AttributeError"
    ELSE "pass"

get_price_data_pre(s, vwdIdentifierType) ==
    IF vwdIdentifierType \notin {"issueid", "vwdkey"} THEN "ValueError"
    ELSE IF ~check_session_config(s) THEN "ConfigNotLoaded"
    ELSE IF get_price_data_url(s) # "pass" THEN get_price_data_url(s)
    ELSE "pass"

get_trading_update_pre(s) == get_portfolio_url(s)

search_product_pre(s) ==
    IF ~check_session_config(s) THEN "ConfigNotLoaded"
    ELSE IF get_product_search_url(s) # "pass" THEN get_product_search_url(s)
    ELSE IF s.client = None THEN "AttributeError"
    ELSE "pass"

get_product_dictionary_pre(s) ==
    IF ~check_session_config(s) THEN "ConfigNotLoaded"
    ELSE IF get_product_dictionary_url(s) # "pass"
        THEN get_product_dictionary_url(s)
    ELSE IF s.client = None THEN "AttributeError"
    ELSE "pass"

get_products_info(t) ==
    Call(t, "get_products_info", get_products_info_pre(session),
         Request("products_info", session.cookies, AccountParams(session), None))

get_company_profile(t) ==
    Call(t, "get_company_profile", get_company_profile_pre(session),
         Request("company_profile", session.cookies, AccountParams(session), None))

get_news_by_company(t) ==
    Call(t, "get_news_by_company", get_news_by_company_pre(session),
         Request("company_news", session.cookies, AccountParams(session), None))

get_price_data(t, vwdIdentifierType) ==
    Call(t, "get_price_data", get_price_data_pre(session, vwdIdentifierType),
         Request("price_data", session.cookies,
                 [userToken |-> session.config.clientId], None))

get_trading_update(t, params) ==
    Call(t, "get_trading_update", get_trading_update_pre(session),
         Request("trading_update", session.cookies, params, None))

get_portfolio(t) ==
    Call(t, "get_portfolio", get_trading_update_pre(session),
         Request("trading_update", session.cookies,
                 [flags |-> {"portfolio", "totalPortfolio"}], None))

get_order(t) ==
    Call(t, "get_order", get_trading_update_pre(session),
         Request("trading_update", session.cookies,
                 [flags |-> {"orders", "historicalOrders", "transactions"}],
                 None))

search_product(t) ==
    Call(t, "search_product", search_product_pre(session),
         Request("product_search", session.cookies, AccountParams(session), None))

get_product_dictionary(t) ==
    Call(t, "get_product_dictionary", get_product_dictionary_pre(session),
         Request("product_dictionary", session.cookies, AccountParams(session),
                 None))

WebapiReads ==
    {"get_products_info", "get_company_profile", "get_news_by_company",
     "get_price_data", "get_trading_update", "get_portfolio", "get_order",
     "search_product", "get_product_dictionary"}

\* a read as it would be if it kept the response's cookies in the session
ReadReturn_StoresCookies(s, response) ==
    IF Validate(response) # "pass"
        THEN [session |-> s, outcome |-> Validate(response)]
        ELSE [session |-> [s EXCEPT !.cookies = response.cookies],
              outcome |-> "ok"]

\* a read as it would be if it took the client out of the session while it
\* handles the response
ReadReturn_DropsClient(s, response) ==
    [session |-> [s EXCEPT !.client = None],
     outcome |-> IF Validate(response) # "pass" THEN Validate(response) ELSE "ok"]

\* a read after its request: check_response, then the response is returned;
\* the session it leaves and the outcome
ReadReturn(s, response) ==
    [session |-> s,
     outcome |-> IF Validate(response) # "pass" THEN Validate(response) ELSE "ok"]

\* the response of a webapi read arrives
read_response(t, response) ==
    /\ calls[t].op \in WebapiReads /\ calls[t].pc = "await1"
    /\ LET end == ReadReturn(session, response)
       IN  /\ session' = end.session
           /\ calls' = [calls EXCEPT ![t] =
                   Finish([@ EXCEPT !.response = response], end.outcome)]

-----------------------------------------------------------------------------
(* The domain readers of api/orders.py *)

\* the precondition of the request-layer calls orders.py makes
\* (webapi.check_order, get_orders, get_orders_history, get_transactions)
request_layer_pre(s) ==
    IF ~check_session_config(s) \/ s.client = None
        THEN "ConfigNotLoaded" ELSE "pass"

\* check_order called
check_order_pre(s, buy_sell) ==
    IF buy_sell \notin {"BUY", "SELL"} THEN "AssertionError"
    ELSE request_layer_pre(s)

check_order(t, buy_sell) ==
    Call(t, "check_order", check_order_pre(session, buy_sell),
         Request("check_order", session.cookies, AccountParams(session), None))

\* the response of the order-check endpoint arrives
check_order_response(t, response) ==
    /\ calls[t].op = "check_order" /\ calls[t].pc = "await1"
    /\ calls' = [calls EXCEPT ![t] =
            Finish([@ EXCEPT !.response = response],
                   ReadReturn(session, response).outcome)]
    /\ UNCHANGED session

-----------------------------------------------------------------------------
(* api/orders.py: the records on the wire and what the readers make of them *)

\* the most records a response lists
MaxRecords == 2

\* a fetch of asyncio.gather whose result has not arrived
Pending == [pending |-> TRUE]

\* a value a call returns or holds in a local, as opposed to None
Value(v) == [value |-> v]

\* a datetime.datetime: a day number and a time of day
Datetime(day, hour) == [day |-> day, hour |-> hour]

\* what datetime.datetime.today() may give a call
Clock == {Datetime(20, 9)}

\* the from_date and the to_date a caller may pass
FromDates == {None, Datetime(3, 15)}

ToDates == {None, Datetime(10, 8)}

\* d - datetime.timedelta(days=n)
MinusDays(d, n) == [d EXCEPT !.day = @ - n]

\* d.strftime(webapi.ORDER_DATE_FORMAT): the fixed format writes the date
\* and not the time of day
strftime(d) == [date |-> d.day]

\* datetime.datetime.fromisoformat
fromisoformat(text) == Datetime(text.iso[1], text.iso[2])

\* str(n)
str(n) == [str |-> n]

\* the default window as it would be if the week were always counted back
\* from today
DateWindow_WeekBeforeToday(from_date, to_date, now) ==
    [to_date |-> IF to_date = None THEN now ELSE to_date,
     from_date |-> IF from_date = None THEN MinusDays(now, 7) ELSE from_date]

\* the date window of get_orders and get_transactions
DateWindow(from_date, to_date, now) ==
    LET to == IF to_date = None THEN now ELSE to_date
    IN  [to_date |-> to,
         from_date |-> IF from_date = None THEN MinusDays(to, 7) ELSE from_date]

\* the query of webapi.get_orders_history and webapi.get_transactions
HistoryParams(s, window) ==
    [intAccount |-> s.client.intAccount, sessionId |-> s.config.sessionId,
     fromDate |-> strftime(window.from_date),
     toDate |-> strftime(window.to_date)]

\* product ids and side codes as the server writes them
ProductIds == {1, 2}

SideCodes == {"B", "S", "X"}

\* the side dictionary as it would be if it took every code that is not 'B'
\* for a sale
BuySell_Lenient(code) ==
    IF code = "B" THEN [error |-> "pass", side |-> "BUY"]
    ELSE [error |-> "pass", side |-> "SELL"]

\* {'B': ORDER.ACTION.BUY, 'S': ORDER.ACTION.SELL}[code]
BuySell(code) ==
    IF code = "B" THEN [error |-> "pass", side |-> "BUY"]
    ELSE IF code = "S" THEN [error |-> "pass", side |-> "SELL"]
    ELSE [error |-> "KeyError", side |-> "none"]

\* an order and a transaction as the server lists them
OrderRow(k, p, c) == [productId |-> p, buysell |-> c]

TransactionRow(k, p, c) ==
    [id |-> k, productId |-> p, buysell |-> c, date |-> [iso |-> <<5, 14>>]]

\* the product ids and side codes of a list of m records
RowChoices(m) == [1..m -> ProductIds \X SideCodes]

\* the lists of at most MaxRecords records a response may hold
OrderLists ==
    UNION {{[k \in 1..m |-> OrderRow(k, f[k][1], f[k][2])] :
                f \in RowChoices(m)} : m \in 0..MaxRecords}

TransactionLists ==
    UNION {{[k \in 1..m |-> TransactionRow(k, f[k][1], f[k][2])] :
                f \in RowChoices(m)} : m \in 0..MaxRecords}

\* the one list the session-lifecycle specification lets the server answer
SomeOrders == {<<OrderRow(1, 1, "B")>>}

SomeTransactions == {<<TransactionRow(1, 1, "B")>>}

\* what an endpoint may answer when its JSON load is one of `bodies`
BodyResponses(bodies) ==
    {Response("OK", "SUCCESS", EmptyJar, b) : b \in bodies}
        \cup {Response("ERR", "ERROR", EmptyJar, None), TransportFailure}

\* the JSON load of the current-orders endpoint, and of an endpoint that
\* answers {'data': ...}
OrdersBody(rows) == [orders |-> [value |-> rows]]

HistoryBody(rows) == [data |-> rows]

\* what fetch i of get_orders may be answered
FetchResponses(i, lists) ==
    BodyResponses({IF i = 1 THEN OrdersBody(rows) ELSE HistoryBody(rows) :
                        rows \in lists})

\* Order(o), after the loop of get_orders rewrote productId and buysell
Order(o) ==
    [productId |-> str(o.productId), buysell |-> BuySell(o.buysell).side]

\* the comprehension as it would be if it listed the orders from the end
OrdersOf_Reversed(rows) ==
    [k \in 1..Len(rows) |-> Order(rows[Len(rows) + 1 - k])]

\* [Order(o) for o in orders_dict]
OrdersOf(rows) == [k \in 1..Len(rows) |-> Order(rows[k])]

\* get_orders after the gather: the lists are taken out of the two responses,
\* the records are rewritten in one loop over both, the pair is built
OrdersReturn(orders_current_resp, orders_history_resp) ==
    LET cb == orders_current_resp.data
        hb == orders_history_resp.data
    IN  IF "orders" \notin DOMAIN cb
            THEN [outcome |-> "KeyError", result |-> None]
        ELSE IF "data" \notin DOMAIN hb
            THEN [outcome |-> "KeyError", result |-> None]
        ELSE IF \E k \in 1..Len(cb.orders.value \o hb.data) :
                    BuySell((cb.orders.value \o hb.data)[k].buysell).error # "pass"
            THEN [outcome |-> "KeyError", result |-> None]
        ELSE [outcome |-> "ok",
              result |-> Value(<<OrdersOf(cb.orders.value),
                                OrdersOf(hb.data)>>)]

\* get_orders called: the date window is computed, asyncio.gather starts the
\* current-orders fetch and the history fetch, each sends its request
get_orders(t, from_date, to_date, now) ==
    /\ Free(t)
    /\ calls' = [calls EXCEPT ![t] =
            IF request_layer_pre(session) # "pass"
                THEN Raised("get_orders", request_layer_pre(session))
                ELSE [Sent("get_orders",
                           <<Request("orders", session.cookies,
                                     AccountParams(session), None),
                             Request("orders_history", session.cookies,
                                     HistoryParams(session,
                                        DateWindow(from_date, to_date, now)),
                                     None)>>)
                        EXCEPT !.pc = "gather",
                               !.fetch = <<Pending, Pending>>,
                               !.args = [from_date |-> from_date,
                                         to_date |-> to_date, now |-> now]]]
    /\ UNCHANGED session

\* the gather as it would be with return_exceptions=True: a failed fetch is
\* one more result, with no orders in it
GatherStep_ReturnExceptions(frame, i, response) ==
    LET kept == IF Validate(response) # "pass"
                    THEN Response("OK", "SUCCESS", EmptyJar,
                                  IF i = 1 THEN OrdersBody(<<>>)
                                           ELSE HistoryBody(<<>>))
                    ELSE response
        got == [frame EXCEPT !.response = response, !.fetch[i] = kept,
                             !.arrived = Append(@, i)]
    IN  IF \A j \in 1..2 : got.fetch[j] # Pending
            THEN Finish([got EXCEPT
                            !.result = OrdersReturn(got.fetch[1],
                                                    got.fetch[2]).result],
                        OrdersReturn(got.fetch[1], got.fetch[2]).outcome)
            ELSE got

\* the gather as it would be if it listed the results as they arrive
GatherStep_ArrivalOrder(frame, i, response) ==
    LET got == [frame EXCEPT !.response = response,
                             !.fetch[Len(frame.arrived) + 1] = response,
                             !.arrived = Append(@, i)]
    IN  IF Validate(response) # "pass" THEN Finish(got, Validate(response))
        ELSE IF \A j \in 1..2 : got.fetch[j] # Pending
            THEN Finish([got EXCEPT
                            !.result = OrdersReturn(got.fetch[1],
                                                    got.fetch[2]).result],
                        OrdersReturn(got.fetch[1], got.fetch[2]).outcome)
        ELSE got

\* the gather as it would be if it returned with the first fetch that ends,
\* the other one counting for no orders
GatherStep_FirstCompleted(frame, i, response) ==
    LET got == [frame EXCEPT !.response = response, !.fetch[i] = response,
                             !.arrived = Append(@, i)]
        rest == Response("OK", "SUCCESS", EmptyJar,
                         IF i = 1 THEN HistoryBody(<<>>) ELSE OrdersBody(<<>>))
        first == IF i = 1 THEN response ELSE rest
        second == IF i = 1 THEN rest ELSE response
    IN  IF Validate(response) # "pass" THEN Finish(got, Validate(response))
        ELSE Finish([got EXCEPT !.result = OrdersReturn(first, second).result],
                    OrdersReturn(first, second).outcome)

\* what get_orders does when fetch i ends: gather raises the first error at
\* once, and gives the results in the order of its arguments when both
\* fetches have returned
GatherStep(frame, i, response) ==
    LET got == [frame EXCEPT !.response = response, !.fetch[i] = response,
                             !.arrived = Append(@, i)]
    IN  IF Validate(response) # "pass" THEN Finish(got, Validate(response))
        ELSE IF \A j \in 1..2 : got.fetch[j] # Pending
            THEN Finish([got EXCEPT
                            !.result = OrdersReturn(got.fetch[1],
                                                    got.fetch[2]).result],
                        OrdersReturn(got.fetch[1], got.fetch[2]).outcome)
        ELSE got

\* the response of one of the two fetches of get_orders arrives
get_orders_response(t, i, lists) ==
    /\ calls[t].op = "get_orders" /\ calls[t].pc = "gather"
    /\ \A k \in 1..Len(calls[t].arrived) : calls[t].arrived[k] # i
    /\ \E response \in FetchResponses(i, lists) :
            calls' = [calls EXCEPT ![t] = GatherStep(calls[t], i, response)]
    /\ UNCHANGED session

\* get_transactions called: the date window is computed, the transactions
\* are requested
get_transactions(t, from_date, to_date, now) ==
    /\ Free(t)
    /\ calls' = [calls EXCEPT ![t] =
            IF request_layer_pre(session) # "pass"
                THEN Raised("get_transactions", request_layer_pre(session))
                ELSE [Sent("get_transactions",
                           <<Request("transactions", session.cookies,
                                     HistoryParams(session,
                                        DateWindow(from_date, to_date, now)),
                                     None)>>)
                        EXCEPT !.args = [from_date |-> from_date,
                                         to_date |-> to_date, now |-> now]]]
    /\ UNCHANGED session

\* the attributes as they would be if the records were read from the end
ProductAttributes_Reversed(data) ==
    [k \in 1..Len(data) |-> [id |-> str(data[Len(data) + 1 - k].productId)]]

\* map(lambda t: {'id': str(t['productId'])}, data)
ProductAttributes(data) ==
    [k \in 1..Len(data) |-> [id |-> str(data[k].productId)]]

\* the product record the server holds for an id
ProductInfo(id) == [id |-> id, isin |-> [isin |-> id]]

\* what the product-info endpoint may answer to a request: the records of
\* all the ids asked for or, when `partial`, of any of them
ProductsResponses(request, partial) ==
    BodyResponses({HistoryBody([id \in found |-> ProductInfo(id)]) :
        found \in IF partial THEN SUBSET request.params.json
                             ELSE {request.params.json}})

\* a product, and the marker an output position holds when its id was not
\* resolved
Product(info) == [base |-> info]

ResolutionError(id) == [error |-> "ResolutionError", id |-> id]

\* ProductFactory.init_batch: the one request it sends for the ids, each
\* asked for once
init_batch_request(s, attributes) ==
    Request("products_info", s.cookies,
            [intAccount |-> s.client.intAccount,
             sessionId |-> s.config.sessionId,
             json |-> {attributes[k].id : k \in 1..Len(attributes)}],
            None)

\* ProductFactory.init_batch: what it yields, one output per input position
init_batch(attributes, response) ==
    [k \in 1..Len(attributes) |->
        IF attributes[k].id \in DOMAIN response.data.data
            THEN Product(response.data.data[attributes[k].id])
            ELSE ResolutionError(attributes[k].id)]

\* the comprehension as it would be if it took the products that are there
\* when the first one is yielded
Materialize_FirstYield(products_gen) ==
    SubSeq(products_gen, 1, IF Len(products_gen) = 0 THEN 0 ELSE 1)

\* [p async for p in products_gen]: the generator is run to its end
Materialize(products_gen) == products_gen

\* what get_transactions does when the transactions arrive: the products of
\* the records are asked from ProductFactory.init_batch
TransactionsStep(frame, s, resp) ==
    LET got == [frame EXCEPT !.response = resp]
    IN  IF Validate(resp) # "pass" THEN Finish(got, Validate(resp))
        ELSE IF get_products_info_pre(s) # "pass"
            THEN Finish(got, get_products_info_pre(s))
        ELSE [got EXCEPT !.pc = "await2", !.data = resp.data.data,
                         !.reqs = Append(@, init_batch_request(s,
                                            ProductAttributes(resp.data.data))),
                         !.nreq = @ + 1]

\* the response of the transactions request arrives
get_transactions_response(t, lists) ==
    /\ calls[t].op = "get_transactions" /\ calls[t].pc = "await1"
    /\ \E resp \in BodyResponses({HistoryBody(rows) : rows \in lists}) :
            calls' = [calls EXCEPT ![t] =
                        TransactionsStep(calls[t], session, resp)]
    /\ UNCHANGED session

\* what get_transactions does when the products arrive: the generator is
\* consumed into the list of products, then the builders are gathered
ProductsStep(frame, response) ==
    LET got == [frame EXCEPT !.response = response]
    IN  IF Validate(response) # "pass" THEN Finish(got, Validate(response))
        ELSE [got EXCEPT
                !.pc = "join",
                !.products = Value(Materialize(
                    init_batch(ProductAttributes(frame.data), response)))]

\* the answer of the product-info endpoint arrives
get_transactions_products(t, partial) ==
    /\ calls[t].op = "get_transactions" /\ calls[t].pc = "await2"
    /\ \E response \in ProductsResponses(calls[t].reqs[2], partial) :
            calls' = [calls EXCEPT ![t] = ProductsStep(calls[t], response)]
    /\ UNCHANGED session

\* a resolver that yields a product for each id the server resolved and
\* nothing for the others: fewer products than ids were asked for
init_batch_found(attributes, response) ==
    LET found == SelectSeq(attributes,
                           LAMBDA a : a.id \in DOMAIN response.data.data)
    IN  [k \in 1..Len(found) |-> Product(response.data.data[found[k].id])]

\* what get_transactions does when the products arrive from such a resolver
ProductsStepFound(frame, response) ==
    LET got == [frame EXCEPT !.response = response]
    IN  IF Validate(response) # "pass" THEN Finish(got, Validate(response))
        ELSE [got EXCEPT
                !.pc = "join",
                !.products = Value(Materialize(
                    init_batch_found(ProductAttributes(frame.data), response)))]

\* the answer of the product-info endpoint arrives, some ids unresolved
get_transactions_products_found(t) ==
    /\ calls[t].op = "get_transactions" /\ calls[t].pc = "await2"
    /\ \E response \in ProductsResponses(calls[t].reqs[2], TRUE) :
            calls' = [calls EXCEPT ![t] = ProductsStepFound(calls[t], response)]
    /\ UNCHANGED session

\* Transaction(...) of _build_transaction
Transaction(prod, trans) ==
    [id |-> str(trans.id), product |-> prod,
     date |-> fromisoformat(trans.date),
     buysell |-> BuySell(trans.buysell).side]

\* the join as it would be if the products were matched to the records from
\* the other end
TransactionsJoin_Reversed(products, data) ==
    LET n == IF Len(products) < Len(data) THEN Len(products) ELSE Len(data)
    IN  IF \E k \in 1..n : BuySell(data[k].buysell).error # "pass"
            THEN [outcome |-> "KeyError", result |-> None]
            ELSE [outcome |-> "ok",
                  result |-> Value([k \in 1..n |->
                                Transaction(products[n + 1 - k], data[k])])]

\* gather(*[_build_transaction(p, t) for p, t in zip(products, data)]): the
\* first builder that raises fails the call
TransactionsJoin(products, data) ==
    LET n == IF Len(products) < Len(data) THEN Len(products) ELSE Len(data)
    IN  IF \E k \in 1..n : BuySell(data[k].buysell).error # "pass"
            THEN [outcome |-> "KeyError", result |-> None]
            ELSE [outcome |-> "ok",
                  result |-> Value([k \in 1..n |->
                                        Transaction(products[k], data[k])])]

\* the builders have run: the transactions are returned
build_transactions(t) ==
    /\ calls[t].op = "get_transactions" /\ calls[t].pc = "join"
    /\ calls' = [calls EXCEPT ![t] =
            Finish([@ EXCEPT !.result =
                        TransactionsJoin(calls[t].products.value,
                                         calls[t].data).result],
                   TransactionsJoin(calls[t].products.value,
                                    calls[t].data).outcome)]
    /\ UNCHANGED session

-----------------------------------------------------------------------------
(* The TOTP generator called by itself *)

\* _get_totp_token(secret_key) called when time.time() reads `now`: the
\* secret is decoded, the window counter is hashed, the truncated value
\* modulo 10^6 is returned as it is
totp_token(t, secret_key, now) ==
    /\ calls' = [calls EXCEPT ![t] =
            [Idle EXCEPT
                !.op = "_get_totp_token", !.pc = "done",
                !.args = [secret_key |-> secret_key, now |-> now],
                !.outcome = IF B32Valid(secret_key) THEN "ok"
                                                    ELSE "InvalidSecret",
                !.result = IF B32Valid(secret_key)
                              THEN Value(_get_totp_token(secret_key, now))
                              ELSE None]]
    /\ UNCHANGED session

-----------------------------------------------------------------------------
(* webapi/login.py: the second copy of login, get_config, get_client_info *)

\* core.constants.LOGIN.TOTP_NEEDED, the status login.py compares with
LOGIN_TOTP_NEEDED == "TOTP_NEEDED"

\* the test of login.py as it would be if LOGIN.TOTP_NEEDED were a status
\* the server never answers
login_py_totp_needed_Never(response) == FALSE

\* response_load['status'] == LOGIN.TOTP_NEEDED
login_py_totp_needed(response) ==
    response # TransportFailure /\ response.status = LOGIN_TOTP_NEEDED

\* login.py's _check_active_session: TRUE when it does not raise
login_py_check_active_session(s) == JSESSIONID \in DOMAIN s.cookies

\* login.py's _get_totp_token, with time.time() passed in as `now`
login_py_get_totp_token(secret_key, now) ==
    LET word == HmacWindow(secret_key.b32, now \div 30)
    IN  [kind |-> "int", val |-> word.low % 1000000]

\* login.py's TOTP branch: the error raised, or "pass" with the one-time
\* password put in the payload
login_py_Challenge(credentials, now) ==
    IF credentials.totp_secret = None /\ credentials.one_time_password = None
        THEN [error |-> "MissingChallengeCredential", otp |-> None]
    ELSE IF credentials.totp_secret # None
        THEN IF B32Valid(credentials.totp_secret)
                THEN [error |-> "pass",
                      otp |-> login_py_get_totp_token(credentials.totp_secret,
                                                      now)]
                ELSE [error |-> "InvalidSecret", otp |-> None]
    ELSE [error |-> "pass", otp |-> credentials.one_time_password]

\* login.py's challenge post
login_py_ChallengeRequest(response, otp) ==
    Request("LOGIN_TOTP", response.cookies, None, otp)

\* the end of login.py's login: check_response, the cookies stored, the
\* session cookie required
login_py_LoginTerminal(s, response) ==
    IF Validate(response) # "pass"
        THEN [session |-> s, outcome |-> Validate(response)]
    ELSE LET s2 == [s EXCEPT !.cookies = response.cookies]
         IN  IF JSESSIONID \notin DOMAIN s2.cookies
                 THEN [session |-> s2, outcome |-> "NoSessionId"]
                 ELSE [session |-> s2, outcome |-> "ok"]

\* what login.py's login does when the response of the login post arrives
login_py_LoginFirst(frame, s, response, now) ==
    LET got == [frame EXCEPT !.response = response]
        ch == login_py_Challenge(frame.creds, now)
    IN  IF login_py_totp_needed(response)
        THEN IF ch.error # "pass"
             THEN [frame |-> Finish([got EXCEPT !.mfa = TRUE], ch.error),
                   session |-> s]
             ELSE [frame |-> [got EXCEPT
                                !.pc = "await2", !.mfa = TRUE,
                                !.reqs = Append(@,
                                    login_py_ChallengeRequest(response, ch.otp)),
                                !.nreq = @ + 1],
                   session |-> s]
        ELSE LET end == login_py_LoginTerminal(s, response)
             IN  [frame |-> Finish(got, end.outcome), session |-> end.session]

\* login.py's get_config called on session s: the frame it leaves
login_py_get_config(s) ==
    IF ~login_py_check_active_session(s)
        THEN Raised("get_config", "NotAuthenticated")
        ELSE Sent("get_config", <<Request("CONFIG", s.cookies, None, None)>>)

\* login.py's get_config after its request
login_py_ConfigStore(s, res) ==
    IF Validate(res) # "pass"
        THEN [session |-> s, outcome |-> Validate(res)]
        ELSE [session |-> [s EXCEPT !.config = res.data], outcome |-> "ok"]

\* login.py's get_client_info called on session s: the frame it leaves
login_py_get_client_info(s) ==
    IF get_client_info_url(s) # "pass"
        THEN Raised("get_client_info", get_client_info_url(s))
    ELSE IF JSESSIONID \notin DOMAIN s.cookies
        THEN Raised("get_client_info", "KeyError")
    ELSE Sent("get_client_info",
              <<Request("CLIENT_INFO", s.cookies,
                        [sessionId |-> s.cookies[JSESSIONID]], None)>>)

\* login.py's get_client_info after its request
login_py_ClientStore(s, res) ==
    IF Validate(res) # "pass"
        THEN [session |-> s, outcome |-> Validate(res)]
        ELSE [session |-> [s EXCEPT !.client = res.data], outcome |-> "ok"]

-----------------------------------------------------------------------------
(* The two copies side by side: task t1 runs the call of webapi.py on       *)
(* `session`, task t2 the same call of login.py on a session object of its  *)
(* own, which its frame holds as the argument `args`; both are given the    *)
(* same credentials and the same responses.                                 *)

\* the frame of login.py's call, with the session object it was called on
OnSession(frame, s) == [frame EXCEPT !.args = s]

\* neither copy runs a call
BothFree == ~Running("t1") /\ ~Running("t2")

\* both copies await the response of their k-th request of `op`
BothAwait(op, pc) ==
    /\ calls["t1"].op = op /\ calls["t1"].pc = pc
    /\ calls["t2"].op = op /\ calls["t2"].pc = pc

\* login called on both copies
twin_login(credentials) ==
    /\ BothFree
    /\ calls' = [calls EXCEPT
            !["t1"] = [Sent("login", <<Request("LOGIN", EmptyJar, None, None)>>)
                            EXCEPT !.creds = credentials],
            !["t2"] = OnSession(
                        [Sent("login",
                              <<Request("LOGIN", EmptyJar, None, None)>>)
                            EXCEPT !.creds = credentials],
                        calls["t2"].args)]
    /\ UNCHANGED session

\* the response of the login post arrives at both copies
twin_login_first_response(response, now) ==
    /\ BothAwait("login", "await1")
    /\ LET a == LoginFirst(calls["t1"], session, response, now)
           b == login_py_LoginFirst(calls["t2"], calls["t2"].args, response, now)
       IN  /\ calls' = [calls EXCEPT !["t1"] = a.frame,
                                     !["t2"] = OnSession(b.frame, b.session)]
           /\ session' = a.session

\* the response of the challenge post arrives at both copies
twin_login_challenge_response(response) ==
    /\ BothAwait("login", "await2")
    /\ LET a == LoginTerminal(session, response)
           b == login_py_LoginTerminal(calls["t2"].args, response)
       IN  /\ calls' = [calls EXCEPT
                !["t1"] = Finish([@ EXCEPT !.response = response], a.outcome),
                !["t2"] = OnSession(
                            Finish([@ EXCEPT !.response = response], b.outcome),
                            b.session)]
           /\ session' = a.session

\* get_config called on both copies
twin_get_config ==
    /\ BothFree
    /\ calls' = [calls EXCEPT
            !["t1"] = IF ~_check_active_session(session)
                        THEN Raised("get_config", "NotAuthenticated")
                        ELSE Sent("get_config",
                                  <<Request("CONFIG", session.cookies,
                                            None, None)>>),
            !["t2"] = OnSession(login_py_get_config(calls["t2"].args),
                                calls["t2"].args)]
    /\ UNCHANGED session

\* the response of the config endpoint arrives at both copies
twin_get_config_response ==
    /\ BothAwait("get_config", "await1")
    /\ \E res \in ConfigResponses(calls["t1"].reqs[1]) :
        LET a == ConfigStore(session, res)
            b == login_py_ConfigStore(calls["t2"].args, res)
        IN  /\ calls' = [calls EXCEPT
                    !["t1"] = Finish([@ EXCEPT !.response = res], a.outcome),
                    !["t2"] = OnSession(
                                Finish([@ EXCEPT !.response = res], b.outcome),
                                b.session)]
            /\ session' = a.session

\* get_client_info called on both copies
twin_get_client_info ==
    /\ BothFree
    /\ calls' = [calls EXCEPT
            !["t1"] = IF get_client_info_pre(session) # "pass"
                        THEN Raised("get_client_info",
                                    get_client_info_pre(session))
                        ELSE Sent("get_client_info",
                                  <<Request("CLIENT_INFO", session.cookies,
                                            [sessionId |->
                                                session.cookies[JSESSIONID]],
                                            None)>>),
            !["t2"] = OnSession(login_py_get_client_info(calls["t2"].args),
                                calls["t2"].args)]
    /\ UNCHANGED session

\* the response of the client-info endpoint arrives at both copies
twin_get_client_info_response(res) ==
    /\ BothAwait("get_client_info", "await1")
    /\ LET a == ClientStore(session, res)
           b == login_py_ClientStore(calls["t2"].args, res)
       IN  /\ calls' = [calls EXCEPT
                !["t1"] = Finish([@ EXCEPT !.response = res], a.outcome),
                !["t2"] = OnSession(
                            Finish([@ EXCEPT !.response = res], b.outcome),
                            b.session)]
           /\ session' = a.session

-----------------------------------------------------------------------------

Init ==
    /\ session \in {NewSession, EnrichedSession}
    /\ calls = [t \in Tasks |-> Idle]

Next ==
    \/ \E t \in Tasks, c \in Credentials : login(t, c)
    \/ \E t \in Tasks, r \in LoginResponses, now \in Times :
            login_first_response(t, r, now)
    \/ \E t \in Tasks, r \in LoginResponses : login_challenge_response(t, r)
    \/ \E t \in Tasks : get_config(t)
    \/ \E t \in Tasks : get_config_response(t)
    \/ \E t \in Tasks : get_client_info(t)
    \/ \E t \in Tasks, r \in DataResponses(ClientData) :
            get_client_info_response(t, r)
    \/ \E t \in Tasks : get_products_info(t)
    \/ \E t \in Tasks : get_company_profile(t)
    \/ \E t \in Tasks : get_news_by_company(t)
    \/ \E t \in Tasks, v \in {"issueid", "vwdkey", "isin"} : get_price_data(t, v)
    \/ \E t \in Tasks, f \in TradingFlags : get_trading_update(t, [flags |-> f])
    \/ \E t \in Tasks : get_portfolio(t)
    \/ \E t \in Tasks : get_order(t)
    \/ \E t \in Tasks : search_product(t)
    \/ \E t \in Tasks : get_product_dictionary(t)
    \/ \E t \in Tasks, r \in ReadResponses : read_response(t, r)
    \/ \E t \in Tasks, b \in {"BUY", "SELL", "HOLD"} : check_order(t, b)
    \/ \E t \in Tasks, r \in ReadResponses : check_order_response(t, r)
    \/ \E t \in Tasks, now \in Clock : get_orders(t, None, None, now)
    \/ \E t \in Tasks, i \in 1..2 : get_orders_response(t, i, SomeOrders)
    \/ \E t \in Tasks, now \in Clock : get_transactions(t, None, None, now)
    \/ \E t \in Tasks : get_transactions_response(t, SomeTransactions)
    \/ \E t \in Tasks : get_transactions_products(t, FALSE)
    \/ \E t \in Tasks : build_transactions(t)

Spec == Init /\ [][Next]_vars

\* The readers of api/orders.py by themselves: one caller on an enriched
\* session, every date window, every list of records the server may answer
OrdersInit ==
    /\ session = EnrichedSession
    /\ calls = [t \in Tasks |-> Idle]

OrdersNext ==
    \/ \E b \in {"BUY", "SELL", "HOLD"} : check_order("t1", b)
    \/ \E r \in ReadResponses : check_order_response("t1", r)
    \/ \E f \in FromDates, d \in ToDates, now \in Clock :
            get_orders("t1", f, d, now)
    \/ \E i \in 1..2 : get_orders_response("t1", i, OrderLists)
    \/ \E f \in FromDates, d \in ToDates, now \in Clock :
            get_transactions("t1", f, d, now)
    \/ get_transactions_response("t1", TransactionLists)
    \/ \E partial \in BOOLEAN : get_transactions_products("t1", partial)
    \/ build_transactions("t1")

OrdersSpec == OrdersInit /\ [][OrdersNext]_vars

\* The session lifecycle and the two readers of api/orders.py when every
\* request is answered in the end: a response to a request of the call of
\* task t arrives, or the builders the call has gathered run
Respond(t) ==
    \/ \E r \in LoginResponses, now \in Times : login_first_response(t, r, now)
    \/ \E r \in LoginResponses : login_challenge_response(t, r)
    \/ get_config_response(t)
    \/ \E r \in DataResponses(ClientData) : get_client_info_response(t, r)
    \/ \E i \in 1..2 : get_orders_response(t, i, SomeOrders)
    \/ get_transactions_response(t, SomeTransactions)
    \/ get_transactions_products(t, FALSE)
    \/ build_transactions(t)

\* one caller: whether a call ends does not depend on what runs beside it
LiveTasks == {"t1"}

LiveNext ==
    \/ \E t \in LiveTasks, c \in Credentials : login(t, c)
    \/ \E t \in LiveTasks : get_config(t)
    \/ \E t \in LiveTasks : get_client_info(t)
    \/ \E t \in LiveTasks, now \in Clock : get_orders(t, None, None, now)
    \/ \E t \in LiveTasks, now \in Clock : get_transactions(t, None, None, now)
    \/ \E t \in LiveTasks : Respond(t)

\* the event loop resumes a coroutine whose awaited response has arrived;
\* that every request is answered is the premise termination is stated under
LiveSpec ==
    Init /\ [][LiveNext]_vars /\ \A t \in LiveTasks : WF_vars(Respond(t))

\* The reads by themselves: two callers on an enriched session, every read
\* of webapi.py and of api/orders.py, two lists of records
TwoOrderLists == {<<OrderRow(1, 1, "B")>>, <<OrderRow(1, 2, "S")>>}

TwoTransactionLists ==
    {<<TransactionRow(1, 1, "B")>>, <<TransactionRow(1, 2, "X")>>}

ReadsNext ==
    \/ \E t \in Tasks : get_products_info(t)
    \/ \E t \in Tasks : get_company_profile(t)
    \/ \E t \in Tasks : get_news_by_company(t)
    \/ \E t \in Tasks, v \in {"issueid", "isin"} : get_price_data(t, v)
    \/ \E t \in Tasks, f \in TradingFlags : get_trading_update(t, [flags |-> f])
    \/ \E t \in Tasks : get_portfolio(t)
    \/ \E t \in Tasks : get_order(t)
    \/ \E t \in Tasks : search_product(t)
    \/ \E t \in Tasks : get_product_dictionary(t)
    \/ \E t \in Tasks, r \in ReadResponses : read_response(t, r)
    \/ \E t \in Tasks, b \in {"BUY", "HOLD"} : check_order(t, b)
    \/ \E t \in Tasks, r \in ReadResponses : check_order_response(t, r)
    \/ \E t \in Tasks, now \in Clock : get_orders(t, None, None, now)
    \/ \E t \in Tasks, i \in 1..2 : get_orders_response(t, i, TwoOrderLists)
    \/ \E t \in Tasks, now \in Clock : get_transactions(t, None, None, now)
    \/ \E t \in Tasks : get_transactions_response(t, TwoTransactionLists)
    \/ \E t \in Tasks : get_transactions_products(t, TRUE)
    \/ \E t \in Tasks : build_transactions(t)

ReadsSpec == OrdersInit /\ [][ReadsNext]_vars

\* get_transactions over a resolver of which nothing is assumed: it yields
\* one output per id, or only the products it found
ResolverNext ==
    \/ \E f \in FromDates, d \in ToDates, now \in Clock :
            get_transactions("t1", f, d, now)
    \/ get_transactions_response("t1", TransactionLists)
    \/ \E partial \in BOOLEAN : get_transactions_products("t1", partial)
    \/ get_transactions_products_found("t1")
    \/ build_transactions("t1")

ResolverSpec == OrdersInit /\ [][ResolverNext]_vars

\* The TOTP generator by itself: two callers, every secret, the seconds at
\* both ends of the first windows
TotpSecrets == {GoodSecret, [b32 |-> "GEZDGNBV"], BadSecret}

TotpTimes == {0, 1, 29, 30, 31, 59, 60, 89, 90, 119}

TotpInit ==
    /\ session \in {NewSession, EnrichedSession}
    /\ calls = [t \in Tasks |-> Idle]

TotpNext ==
    \E t \in Tasks, k \in TotpSecrets, now \in TotpTimes : totp_token(t, k, now)

TotpSpec == TotpInit /\ [][TotpNext]_vars

\* The two copies of the login protocol side by side, from a session as
\* constructed or an enriched one, each copy on its own session object
TwinInit ==
    /\ session \in {NewSession, EnrichedSession}
    /\ calls = [t \in Tasks |->
                    IF t = "t2" THEN OnSession(Idle, session) ELSE Idle]

TwinNext ==
    \/ \E c \in Credentials : twin_login(c)
    \/ \E r \in LoginResponses, now \in Times : twin_login_first_response(r, now)
    \/ \E r \in LoginResponses : twin_login_challenge_response(r)
    \/ twin_get_config
    \/ twin_get_config_response
    \/ twin_get_client_info
    \/ \E r \in DataResponses(ClientData) : twin_get_client_info_response(r)

TwinSpec == TwinInit /\ [][TwinNext]_vars

-----------------------------------------------------------------------------
(* Steps of a task, as the properties below see them *)

\* a call is started on task t in this step
Starts(t) == ~Running(t) /\ calls'[t] # calls[t]

\* the call task t runs returns or raises in this step
Ends(t) == Running(t) /\ calls'[t].pc = "done"

\* the response is one the transport delivered and check_response accepts
Accepted(response) ==
    /\ response \notin {None, TransportFailure}
    /\ check_response(response)

HasSessionCookie(jar) == JSESSIONID \in DOMAIN jar

-----------------------------------------------------------------------------
(* Properties *)

\* C1: whenever login returns normally, with or without a challenge, the
\* session it returns holds the session-identifying cookie JSESSIONID with a
\* session id as its value.
C1_LoginReturnsSessionCookie ==
    [][\A t \in Tasks :
        (calls[t].op = "login" /\ Ends(t) /\ calls'[t].outcome = "ok")
            => /\ HasSessionCookie(session'.cookies)
               /\ session'.cookies[JSESSIONID] \in SessionIds]_vars

\* a login without challenge has returned the session with its cookie
C1_Witness ==
    \E t \in Tasks :
        /\ calls[t].op = "login" /\ calls[t].pc = "done"
        /\ calls[t].outcome = "ok" /\ ~calls[t].mfa
        /\ HasSessionCookie(session.cookies)

\* C2: when the first response says TOTP is needed and the credentials hold
\* neither a secret nor a one-time password, login raises the missing
\* credential error having sent the login post only: the challenge endpoint
\* is never posted to, and the session is as it was.
C2_NoCredentialNoChallenge ==
    [][\A t \in Tasks :
        (/\ calls[t].op = "login" /\ calls[t].pc = "await1"
         /\ calls[t].creds.totp_secret = None
         /\ calls[t].creds.one_time_password = None
         /\ calls'[t].mfa)
            => /\ calls'[t].pc = "done"
               /\ calls'[t].outcome = "MissingChallengeCredential"
               /\ calls'[t].nreq = 1
               /\ session' = session]_vars

\* a challenged login without credential has failed after one request
C2_Witness ==
    \E t \in Tasks :
        /\ calls[t].op = "login" /\ calls[t].pc = "done" /\ calls[t].mfa
        /\ calls[t].outcome = "MissingChallengeCredential"
        /\ calls[t].nreq = 1

\* C3: a login whose terminal response passed check_response but carries no
\* JSESSIONID cookie has raised NoSessionId; it did not return the session.
C3_NoSessionIdIsFailure ==
    \A t \in Tasks :
        (/\ calls[t].op = "login" /\ calls[t].pc = "done"
         /\ Accepted(calls[t].response)
         /\ ~HasSessionCookie(calls[t].response.cookies))
            => calls[t].outcome = "NoSessionId"

\* a login has failed on a response with a success status and no cookie
C3_Witness ==
    \E t \in Tasks :
        /\ calls[t].op = "login" /\ calls[t].pc = "done"
        /\ calls[t].outcome = "NoSessionId"
        /\ calls[t].response.code = "OK"

\* the one-time password the credentials give for the challenge
IsChallengeCode(credentials, otp) ==
    IF credentials.totp_secret # None
        THEN \E now \in Times :
                otp = _get_totp_token(credentials.totp_secret, now)
        ELSE otp = credentials.one_time_password

\* what C4 says of a challenged login, for the credentials in `usable`
ChallengeProtocol(usable) ==
    \A t \in Tasks :
        /\ (calls[t].op = "login" /\ calls[t].pc = "await1")
            => /\ calls[t].nreq = 1
               /\ calls[t].reqs[1].url = "LOGIN"
        /\ (/\ calls[t].op = "login" /\ calls[t].pc = "await1"
            /\ calls[t].creds \in usable
            /\ calls'[t].mfa)
            => /\ calls'[t].pc = "await2"
               /\ calls'[t].nreq = 2
               /\ Len(calls'[t].reqs) = 2
               /\ calls'[t].reqs[2].url = "LOGIN_TOTP"
               /\ calls'[t].reqs[2].cookies = calls'[t].response.cookies
               /\ calls'[t].reqs[2].otp # None
               /\ IsChallengeCode(calls[t].creds, calls'[t].reqs[2].otp)
        /\ (calls[t].op = "login" /\ calls[t].pc = "await2" /\ Ends(t))
            => /\ calls'[t].nreq = 2
               /\ IF Accepted(calls'[t].response)
                    THEN session'.cookies = calls'[t].response.cookies
                    ELSE session' = session

\* C4 (as amended): when the first response says TOTP is needed and the
\* credentials hold a one-time password or a TOTP secret that decodes as
\* base32, login sends exactly one further request, to the challenge
\* endpoint, after the first response, with the one-time code and the
\* cookies of the first response; the cookies stored in the session are
\* those of the challenge response.
C4_ChallengeCarriesCodeAndCookies ==
    [][ChallengeProtocol(
        {c \in Credentials :
            /\ c.totp_secret # None \/ c.one_time_password # None
            /\ c.totp_secret # None => B32Valid(c.totp_secret)})]_vars

\* C4 as stated: the same for every credentials that hold a secret or a
\* one-time password
C4_Original ==
    [][ChallengeProtocol(
        {c \in Credentials :
            c.totp_secret # None \/ c.one_time_password # None})]_vars

\* a challenge post is in flight with the cookies of the first response
C4_Witness ==
    \E t \in Tasks :
        /\ calls[t].op = "login" /\ calls[t].pc = "await2"
        /\ calls[t].reqs[2].cookies # EmptyJar
        /\ calls[t].reqs[2].cookies = calls[t].response.cookies

\* the state of the login protocol a login frame is in
LoginState(frame) ==
    IF frame.pc = "await1" THEN "Unauthenticated"
    ELSE IF frame.pc = "await2" THEN "AwaitingChallenge"
    ELSE IF frame.outcome = "ok" THEN "Authenticated"
    ELSE "Failed"

\* C5: a login call moves Unauthenticated -> AwaitingChallenge ->
\* Authenticated, or to Failed: AwaitingChallenge is entered only from
\* Unauthenticated on a TOTP_NEEDED response, Authenticated only on a response
\* that passed validation and carries the session cookie, no call is in
\* AwaitingChallenge twice, and Failed and Authenticated are left only by a
\* new call.
C5_LoginStateMachine ==
    [][\A t \in Tasks :
        (calls'[t].op = "login" /\ calls'[t] # calls[t]) =>
            LET from == IF Running(t) /\ calls[t].op = "login"
                            THEN LoginState(calls[t]) ELSE "NotCalled"
                to == LoginState(calls'[t])
            IN  /\ from = "NotCalled" => to = "Unauthenticated"
                /\ from = "Unauthenticated"
                    => to \in {"AwaitingChallenge", "Authenticated", "Failed"}
                /\ from = "AwaitingChallenge"
                    => to \in {"Authenticated", "Failed"}
                /\ to = "AwaitingChallenge"
                    => /\ from = "Unauthenticated"
                       /\ calls'[t].response.status = "TOTP_NEEDED"
                /\ to = "Authenticated"
                    => /\ Accepted(calls'[t].response)
                       /\ HasSessionCookie(calls'[t].response.cookies)]_vars

\* a login has gone through the challenge and is Authenticated
C5_Witness ==
    \E t \in Tasks :
        /\ calls[t].op = "login" /\ calls[t].pc = "done"
        /\ calls[t].mfa /\ calls[t].outcome = "ok" /\ calls[t].nreq = 2

\* C6: get_config called on a session that holds no JSESSIONID cookie raises
\* the not-authenticated error, sends no request and leaves the session's
\* cookies, config and client as they were.
C6_GetConfigNeedsSessionCookie ==
    [][\A t \in Tasks :
        (/\ Starts(t) /\ calls'[t].op = "get_config"
         /\ ~HasSessionCookie(session.cookies))
            => /\ calls'[t].pc = "done"
               /\ calls'[t].outcome = "NotAuthenticated"
               /\ calls'[t].nreq = 0
               /\ session' = session]_vars

\* get_config has raised on a session without the cookie
C6_Witness ==
    \E t \in Tasks :
        /\ calls[t].op = "get_config" /\ calls[t].pc = "done"
        /\ calls[t].outcome = "NotAuthenticated" /\ calls[t].nreq = 0
        /\ ~HasSessionCookie(session.cookies)

AccountScoped ==
    {"search_product", "get_product_dictionary", "get_price_data",
     "get_products_info", "get_company_profile", "get_news_by_company",
     "get_trading_update"}

\* C9 as stated: each of these reads, called on a session whose config or
\* client is not populated, raises ConfigNotLoaded before any request (a
\* get_price_data with a bad identifier type raises its ValueError first).
C9_Original ==
    [][\A t \in Tasks :
        (/\ Starts(t) /\ calls'[t].op \in AccountScoped
         /\ (session.config = None \/ session.client = None))
            => /\ calls'[t].pc = "done"
               /\ calls'[t].nreq = 0
               /\ calls'[t].outcome \in {"ConfigNotLoaded", "ValueError"}]_vars

\* the readers of webapi.py and api/orders.py
Readers == WebapiReads \cup {"check_order", "get_orders", "get_transactions"}

\* C10: no step of a reader, successful or failed, changes the session: its
\* cookies, config and client are what they were.
C10_ReadersLeaveSession ==
    [][(\E t \in Tasks : calls'[t] # calls[t] /\ calls'[t].op \in Readers)
            => session' = session]_vars

\* a reader has returned on the enriched session, which is as it was
C10_Witness ==
    \E t \in Tasks :
        /\ calls[t].op = "search_product" /\ calls[t].pc = "done"
        /\ calls[t].outcome = "ok"
        /\ session = EnrichedSession

-----------------------------------------------------------------------------
(* Properties of api/orders.py, under OrdersSpec *)

\* a fetch of the gather has arrived and check_response accepts it
FetchAccepted(x) == IF x = Pending THEN FALSE ELSE Accepted(x)

\* the side codes of a list of records are all in the dictionary
AllTranslatable(rows) == \A k \in 1..Len(rows) : rows[k].buysell \in {"B", "S"}

\* the side a record of the result must show for a code of the wire
SideMatches(code, side) ==
    /\ code = "B" => side = "BUY"
    /\ code = "S" => side = "SELL"
    /\ side \in {"BUY", "SELL"}

\* C11: get_transactions over a list of N records whose product ids all
\* resolved (and whose side codes are translatable) returns N Transactions
\* in the order of the records, the i-th made of the i-th record and holding
\* the product resolved for the i-th record's productId, also when records
\* share a product id.
C11_TransactionsJoinProducts ==
    [][\A t \in Tasks :
        (/\ calls[t].op = "get_transactions" /\ calls[t].pc = "join"
         /\ Ends(t)
         /\ \A k \in 1..Len(calls[t].data) :
                str(calls[t].data[k].productId) \in DOMAIN calls[t].response.data.data)
            => /\ AllTranslatable(calls[t].data) => calls'[t].outcome = "ok"
               /\ calls'[t].outcome = "ok" =>
                    /\ Len(calls'[t].result.value) = Len(calls[t].data)
                    /\ \A k \in 1..Len(calls[t].data) :
                        /\ calls'[t].result.value[k].id = str(calls[t].data[k].id)
                        /\ calls'[t].result.value[k].product =
                            Product(calls[t].response.data.data[
                                        str(calls[t].data[k].productId)])
                        /\ calls'[t].result.value[k].product.base.id =
                            str(calls[t].data[k].productId)]_vars

\* get_transactions has returned two transactions of two products, in the
\* order of the records
C11_Witness ==
    \E t \in Tasks :
        /\ calls[t].op = "get_transactions" /\ calls[t].pc = "done"
        /\ calls[t].outcome = "ok" /\ Len(calls[t].result.value) >= 2
        /\ calls[t].result.value[1].id = str(1) /\ calls[t].result.value[2].id = str(2)
        /\ calls[t].result.value[1].product = Product(ProductInfo(str(2)))
        /\ calls[t].result.value[2].product = Product(ProductInfo(str(1)))

\* C12: get_transactions builds no Transaction while the products are being
\* resolved: as long as it awaits the transactions or the resolver it holds
\* no product list and no result, and the step that builds the result starts
\* from a product list that has one entry per record.
C12_NoStreamingJoin ==
    [][\A t \in Tasks :
        /\ (calls'[t].op = "get_transactions"
                /\ calls'[t].pc \in {"await1", "await2"})
            => calls'[t].products = None /\ calls'[t].result = None
        /\ (calls'[t].op = "get_transactions" /\ calls'[t].result # None
                /\ calls'[t] # calls[t])
            => /\ calls[t].op = "get_transactions" /\ calls[t].pc = "join"
               /\ calls[t].result = None
               /\ Len(calls[t].products.value) = Len(calls[t].data)
               /\ Len(calls'[t].result.value) = Len(calls[t].data)]_vars

\* the resolver is exhausted, the product list is complete and nothing is
\* built yet
C12_Witness ==
    \E t \in Tasks :
        /\ calls[t].op = "get_transactions" /\ calls[t].pc = "join"
        /\ Len(calls[t].data) >= 2
        /\ Len(calls[t].products.value) = Len(calls[t].data)
        /\ calls[t].result = None

C14_GetOrdersFailsFast ==
    [][\A t \in Tasks :
        (calls[t].op = "get_orders" /\ calls[t].pc = "gather"
            /\ calls'[t] # calls[t])
            => /\ ~Accepted(calls'[t].response)
                    => /\ calls'[t].pc = "done"
                       /\ calls'[t].outcome = Validate(calls'[t].response)
                       /\ calls'[t].result = None
               /\ calls'[t].pc = "gather" => calls'[t].result = None
               /\ calls'[t].result # None
                    => /\ calls'[t].outcome = "ok"
                       /\ Len(calls'[t].result.value) = 2
                       /\ \A j \in 1..2 : FetchAccepted(calls'[t].fetch[j])]_vars

\* get_orders has raised the error of the second fetch to end, the first
\* having succeeded, and returned no pair
C14_Witness ==
    \E t \in Tasks :
        /\ calls[t].op = "get_orders" /\ calls[t].pc = "done"
        /\ Len(calls[t].arrived) = 2
        /\ calls[t].outcome = "ApiStatusError"
        /\ calls[t].result = None

\* C15: get_orders sends the current-orders request and the history request
\* before it awaits either response, and whichever response arrives first,
\* the pair it returns has the orders of the current-orders response first
\* and those of the history response second, both rewritten by the same
\* rules.
C15_GetOrdersConcurrentAndOrdered ==
    [][\A t \in Tasks :
        /\ (Starts(t) /\ calls'[t].op = "get_orders" /\ calls'[t].pc # "done")
            => /\ calls'[t].pc = "gather" /\ calls'[t].nreq = 2
               /\ calls'[t].reqs[1].url = "orders"
               /\ calls'[t].reqs[2].url = "orders_history"
               /\ calls'[t].fetch = <<Pending, Pending>>
        /\ (/\ calls[t].op = "get_orders" /\ Ends(t)
            /\ Len(calls'[t].arrived) = 2
            /\ Accepted(calls'[t].response))
            => \E c, h \in {calls'[t].fetch[j] : j \in 1..2} :
                /\ "orders" \in DOMAIN c.data /\ "data" \in DOMAIN h.data
                /\ AllTranslatable(c.data.orders.value \o h.data.data)
                    => /\ calls'[t].outcome = "ok"
                       /\ calls'[t].result.value[1] = OrdersOf(c.data.orders.value)
                       /\ calls'[t].result.value[2] = OrdersOf(h.data.data)]_vars

\* the history response arrived first and the pair is (current, history)
C15_Witness ==
    \E t \in Tasks :
        /\ calls[t].op = "get_orders" /\ calls[t].pc = "done"
        /\ calls[t].outcome = "ok" /\ calls[t].arrived = <<2, 1>>
        /\ calls[t].result.value[1] # calls[t].result.value[2]
        /\ calls[t].result.value[1] = OrdersOf(calls[t].fetch[1].data.orders.value)
        /\ calls[t].result.value[2] = OrdersOf(calls[t].fetch[2].data.data)

\* the request of a call of get_orders or get_transactions that carries the
\* date window
DatedRequest(frame) ==
    IF frame.op = "get_orders" THEN frame.reqs[2] ELSE frame.reqs[1]

C17_SideCodes ==
    [][\A t \in Tasks :
        /\ (/\ calls[t].op = "get_orders" /\ Ends(t)
            /\ Len(calls'[t].arrived) = 2 /\ Accepted(calls'[t].response))
            => LET cur == calls'[t].fetch[1].data.orders.value
                   his == calls'[t].fetch[2].data.data
               IN  /\ ~AllTranslatable(cur \o his)
                        => /\ calls'[t].outcome = "KeyError"
                           /\ calls'[t].result = None
                   /\ calls'[t].outcome = "ok"
                        => /\ \A k \in 1..Len(cur) :
                                SideMatches(cur[k].buysell,
                                            calls'[t].result.value[1][k].buysell)
                           /\ \A k \in 1..Len(his) :
                                SideMatches(his[k].buysell,
                                            calls'[t].result.value[2][k].buysell)
        /\ (calls[t].op = "get_transactions" /\ calls[t].pc = "join"
                /\ Ends(t))
            => /\ ~AllTranslatable(calls[t].data)
                    => /\ calls'[t].outcome = "KeyError"
                       /\ calls'[t].result = None
               /\ calls'[t].outcome = "ok"
                    => \A k \in 1..Len(calls[t].data) :
                            SideMatches(calls[t].data[k].buysell,
                                        calls'[t].result.value[k].buysell)]_vars

\* get_orders has raised on a history record with an unknown code that
\* follows a record with a known one, and returned nothing
C17_Witness ==
    \E t \in Tasks :
        /\ calls[t].op = "get_orders" /\ calls[t].pc = "done"
        /\ calls[t].outcome = "KeyError" /\ calls[t].result = None
        /\ Len(calls[t].arrived) = 2
        /\ Len(calls[t].fetch[2].data.data) >= 2
        /\ calls[t].fetch[2].data.data[1].buysell = "B"
        /\ calls[t].fetch[2].data.data[2].buysell = "X"

-----------------------------------------------------------------------------
(* Properties of the request layer, under Spec *)

\* the calls of webapi.py that send requests
WebapiCalls == {"login", "get_config", "get_client_info"} \cup WebapiReads

\* in this step login takes the TOTP branch on its first response, which it
\* does not validate
TakesChallenge(t) ==
    calls[t].op = "login" /\ calls[t].pc = "await1" /\ calls'[t].mfa

\* the requests the call of task t sends in this step
SentNow(t) ==
    {calls'[t].reqs[k] :
        k \in ((IF Running(t) THEN Len(calls[t].reqs) ELSE 0) + 1)
                ..Len(calls'[t].reqs)}

\* C18: no call retries or swallows a failure: login sends at most two
\* requests (the login post, then at most one challenge post), get_config,
\* get_client_info and each read at most one; when the transport fails or
\* check_response rejects the response, the call raises that error in the
\* same step and has sent nothing more.
C18_NoRetryNoSwallow ==
    [][\A t \in Tasks :
        /\ calls'[t].op = "login"
            => /\ calls'[t].nreq <= 2
               /\ calls'[t].pc = "await1" => calls'[t].nreq = 1
               /\ calls'[t].nreq = 2 => calls'[t].mfa
        /\ calls'[t].op \in WebapiCalls \ {"login"} => calls'[t].nreq <= 1
        /\ (/\ calls[t].op \in WebapiCalls /\ Running(t)
            /\ calls'[t] # calls[t] /\ ~TakesChallenge(t)
            /\ ~Accepted(calls'[t].response))
            => /\ calls'[t].pc = "done"
               /\ calls'[t].outcome = Validate(calls'[t].response)
               /\ calls'[t].nreq = calls[t].nreq
               /\ session' = session]_vars

\* a challenged login has failed on the transport of its second request and
\* sent no third
C18_Witness ==
    \E t \in Tasks :
        /\ calls[t].op = "login" /\ calls[t].pc = "done"
        /\ calls[t].outcome = "TransportError"
        /\ calls[t].nreq = 2

\* the endpoints whose calls carry intAccount and sessionId in the query
AccountUrls ==
    {"product_search", "products_info", "product_dictionary",
     "company_profile", "company_news"}

\* what C19 says of the requests sent after login, the account parameters
\* being required of the calls to the endpoints in `urls`
RequestsCarrySession(urls) ==
    \A t \in Tasks :
        calls'[t].op # "login" =>
            \A q \in SentNow(t) :
                /\ q.cookies = session.cookies
                /\ q.url \in urls
                    => /\ "intAccount" \in DOMAIN q.params
                       /\ "sessionId" \in DOMAIN q.params
                       /\ session.client # None /\ session.config # None
                       /\ q.params.intAccount = session.client.intAccount
                       /\ q.params.sessionId = session.config.sessionId

\* C19 (as amended): every request sent after login carries the cookies the
\* session holds when it is sent; every call to the product-search,
\* product-info, product-dictionary, company-profile and company-news
\* endpoints also carries the session's intAccount and sessionId in its
\* query; a call to the trading-update endpoint carries the caller's flags
\* as its whole query.
C19_RequestsCarrySession ==
    [][/\ RequestsCarrySession(AccountUrls)
       /\ \A t \in Tasks : \A q \in SentNow(t) :
            q.url = "trading_update" => DOMAIN q.params = {"flags"}]_vars

\* C19 as stated: the same with the account parameters on the
\* trading-update calls too
C19_Original ==
    [][RequestsCarrySession(AccountUrls \cup {"trading_update"})]_vars

\* a product search is in flight with the cookies and the account
\* parameters of a session a login on this run gave its cookies
C19_Witness ==
    \E t \in Tasks :
        /\ calls[t].op = "search_product" /\ calls[t].pc = "await1"
        /\ calls[t].reqs[1].cookies = JarOf("sidB")
        /\ calls[t].reqs[1].cookies = session.cookies
        /\ calls[t].reqs[1].params.intAccount = session.client.intAccount

\* C20: in login, get_config, get_client_info and every read, a call returns
\* only on a response check_response accepted, the session changes only on
\* such a response, and a response check_response rejects makes the call
\* raise the API-status error with the session as it was.
C20_ValidatedBeforeUse ==
    [][\A t \in Tasks :
        (calls[t].op \in WebapiCalls /\ Running(t) /\ calls'[t] # calls[t])
            => /\ (Ends(t) /\ calls'[t].outcome = "ok")
                    => Accepted(calls'[t].response)
               /\ session' # session => Accepted(calls'[t].response)
               /\ (/\ ~TakesChallenge(t)
                   /\ calls'[t].response # TransportFailure
                   /\ ~check_response(calls'[t].response))
                    => /\ calls'[t].pc = "done"
                       /\ calls'[t].outcome = "ApiStatusError"
                       /\ session' = session]_vars

\* get_client_info has raised on a rejected response that carried account
\* data, and the session holds none of it
C20_Witness ==
    \E t \in Tasks :
        /\ calls[t].op = "get_client_info" /\ calls[t].pc = "done"
        /\ calls[t].outcome = "ApiStatusError"
        /\ calls[t].response.data \in ClientData
        /\ session.client = None

-----------------------------------------------------------------------------
(* Properties of the TOTP generator *)

\* the number of characters json.dumps writes for a non-negative int
DecimalDigits(n) ==
    IF n < 10 THEN 1 ELSE IF n < 100 THEN 2 ELSE IF n < 1000 THEN 3
    ELSE IF n < 10000 THEN 4 ELSE IF n < 100000 THEN 5
    ELSE IF n < 1000000 THEN 6 ELSE 7

\* the calls of the generator that returned
Generated == {t \in Tasks : calls[t].op = "_get_totp_token"
                                /\ calls[t].outcome = "ok"}

\* C24: the code the TOTP generator returns is a value in 0..999999 written
\* with exactly six digits, zeros on the left where the value is short.
C24_Original ==
    \A t \in Generated :
        /\ calls[t].result.value.val \in 0..999999
        /\ \/ /\ calls[t].result.value.kind = "str"
              /\ calls[t].result.value.digits = 6
           \/ /\ calls[t].result.value.kind = "int"
              /\ DecimalDigits(calls[t].result.value.val) = 6

\* C25: the code depends on the secret and on the 30-second window only:
\* two calls with the same secret at times of the same window return the
\* same code; a call of the generator leaves the session and the frames of
\* the other tasks as they were.
C25_TotpPureInWindow ==
    [][/\ \A t \in Tasks, u \in Tasks :
            (/\ calls'[t].op = "_get_totp_token" /\ calls'[t].outcome = "ok"
             /\ calls'[u].op = "_get_totp_token" /\ calls'[u].outcome = "ok"
             /\ calls'[t].args.secret_key = calls'[u].args.secret_key
             /\ calls'[t].args.now \div 30 = calls'[u].args.now \div 30)
                => calls'[t].result = calls'[u].result
       /\ session' = session
       /\ \A t \in Tasks : \A u \in Tasks \ {t} :
            calls'[t] # calls[t] => calls'[u] = calls[u]]_vars

\* two calls with one secret at the two ends of one window have returned,
\* and a third window gave another code
C25_Witness ==
    /\ calls["t1"].op = "_get_totp_token" /\ calls["t1"].outcome = "ok"
    /\ calls["t2"].op = "_get_totp_token" /\ calls["t2"].outcome = "ok"
    /\ calls["t1"].args = [secret_key |-> GoodSecret, now |-> 30]
    /\ calls["t2"].args = [secret_key |-> GoodSecret, now |-> 59]
    /\ calls["t1"].result = calls["t2"].result
    /\ calls["t1"].result # Value(_get_totp_token(GoodSecret, 60))

-----------------------------------------------------------------------------
(* Properties of the session lifecycle under concurrency and failure *)

\* C22: two logins on one session overwrite each other: whenever the
\* terminal response of a login passes validation, the session's cookies
\* become the cookies of that response, whatever an earlier login that has
\* returned left there; so a login can have returned the session
\* successfully and the session no longer hold that call's cookie.
C22_LoginsOverwriteEachOther ==
    [][\A t \in Tasks :
        (/\ calls[t].op = "login" /\ Ends(t)
         /\ Accepted(calls'[t].response))
            => session'.cookies = calls'[t].response.cookies]_vars

\* the login of t1 has returned the session with its cookie, the login of
\* t2 that ran beside it has ended after it, and the session holds no
\* session cookie at all
C22_Witness ==
    /\ calls["t1"].op = "login" /\ calls["t1"].outcome = "ok"
    /\ calls["t1"].response.cookies = JarOf("sidA")
    /\ calls["t2"].op = "login" /\ calls["t2"].pc = "done"
    /\ session.cookies = EmptyJar

\* C26: when login is challenged and the credentials hold a TOTP secret, the
\* code posted is the one generated from the secret, whether or not the
\* caller also gave a code; the caller's code is posted only when the
\* credentials hold no secret.
C26_SecretHasPriority ==
    [][\A t \in Tasks :
        (TakesChallenge(t) /\ calls'[t].pc = "await2")
            => /\ calls[t].creds.totp_secret # None
                    => \E now \in Times :
                        calls'[t].reqs[2].otp =
                            _get_totp_token(calls[t].creds.totp_secret, now)
               /\ calls[t].creds.totp_secret = None
                    => calls'[t].reqs[2].otp = calls[t].creds.one_time_password
               /\ calls'[t].reqs[2].otp = CallerCode
                    => calls[t].creds.totp_secret = None]_vars

\* a login whose credentials hold the secret and a caller's code has posted
\* the generated code
C26_Witness ==
    \E t \in Tasks :
        /\ calls[t].op = "login" /\ calls[t].pc = "await2"
        /\ calls[t].creds.totp_secret = GoodSecret
        /\ calls[t].creds.one_time_password = CallerCode
        /\ calls[t].reqs[2].otp.kind = "int"

\* C27: login writes the cookies of the session and nothing else,
\* get_config the config and nothing else, get_client_info the client and
\* nothing else; login sends requests to the login and the challenge
\* endpoint only, so a fresh session has neither config nor client after
\* login.
C27_EachStepWritesItsPart ==
    [][\A t \in Tasks :
        /\ Starts(t) => session' = session
        /\ (Running(t) /\ calls'[t] # calls[t])
            => /\ calls[t].op = "login"
                    => /\ session'.config = session.config
                       /\ session'.client = session.client
               /\ calls[t].op = "get_config"
                    => /\ session'.cookies = session.cookies
                       /\ session'.client = session.client
               /\ calls[t].op = "get_client_info"
                    => /\ session'.cookies = session.cookies
                       /\ session'.config = session.config
        /\ calls'[t].op = "login"
            => \A q \in SentNow(t) : q.url \in {"LOGIN", "LOGIN_TOTP"}
        /\ calls'[t].op = "get_config"
            => \A q \in SentNow(t) : q.url = "CONFIG"
        /\ calls'[t].op = "get_client_info"
            => \A q \in SentNow(t) : q.url = "CLIENT_INFO"]_vars

\* a challenged login has returned a session that was fresh: it holds the
\* cookie, no config and no client
C27_Witness ==
    \E t \in Tasks :
        /\ calls[t].op = "login" /\ calls[t].outcome = "ok" /\ calls[t].mfa
        /\ HasSessionCookie(session.cookies)
        /\ session.config = None /\ session.client = None

\* C28: a login that fails, for whatever reason, leaves the cookies, the
\* config and the client of the session as they were before the call.
C28_Original ==
    [][\A t \in Tasks :
        (calls[t].op = "login" /\ Ends(t) /\ calls'[t].outcome # "ok")
            => session' = session]_vars

\* the session id of the config is the one of the session's cookie
Fresh(s) ==
    s.config # None
        => /\ HasSessionCookie(s.cookies)
           /\ s.config.sessionId = s.cookies[JSESSIONID]

\* the requests sent in this step that carry a sessionId taken from the
\* config (get_client_info takes its own from the cookie)
SessionIdRequests ==
    UNION {{q \in SentNow(t) : "sessionId" \in DOMAIN q.params
                                /\ q.url # "CLIENT_INFO"} : t \in Tasks}

\* C29 (as amended): the sessionId a read sends is the one of the config the
\* last successful get_config stored, which is the server session of the
\* cookie that get_config request carried.  It names the session of the
\* cookie sent with the read as long as no login has replaced the session's
\* cookies since that get_config request was sent: only a login that stores
\* other cookies, or a get_config response that answers a request sent with
\* other cookies, makes the config's session id differ from the cookie's.
C29_SessionIdOfLastConfig ==
    [][/\ \A q \in SessionIdRequests :
            /\ q.params.sessionId = session.config.sessionId
            /\ Fresh(session) => q.params.sessionId = q.cookies[JSESSIONID]
       /\ \A t \in Tasks :
            (calls[t].op = "get_config" /\ Ends(t) /\ calls'[t].outcome = "ok")
                => session'.config.sessionId =
                        calls[t].reqs[1].cookies[JSESSIONID]
       /\ (Fresh(session) /\ ~Fresh(session'))
            => \E t \in Tasks :
                IF calls[t].op = "login"
                    THEN Ends(t) /\ session'.cookies # session.cookies
                    ELSE /\ calls[t].op = "get_config" /\ Ends(t)
                         /\ calls[t].reqs[1].cookies # session.cookies]_vars

\* C29 as stated: after any sequence of login, get_config and
\* get_client_info, the sessionId of a read names the session of the cookie
\* sent with it
C29_Original ==
    [][\A q \in SessionIdRequests :
        /\ HasSessionCookie(q.cookies)
        /\ q.params.sessionId = q.cookies[JSESSIONID]]_vars

\* after a login on the enriched session that was given another session id
\* and no get_config since, a product search is in flight with the new
\* cookie and the session id of the config
C29_Witness ==
    \E t \in Tasks :
        /\ calls[t].op = "search_product" /\ calls[t].pc = "await1"
        /\ calls[t].reqs[1].cookies = JarOf("sidB")
        /\ calls[t].reqs[1].params.sessionId = "sidA"
        /\ session.config.sessionId = "sidA"

-----------------------------------------------------------------------------
(* Properties of get_transactions over any resolver, under ResolverSpec *)

\* C30: get_transactions drops no record: whenever it returns, it returns as
\* many transactions as the response listed records, also when the resolver
\* yielded fewer products than ids were asked for (then it does not return).
C30_Original ==
    [][\A t \in Tasks :
        (/\ calls[t].op = "get_transactions" /\ calls[t].pc = "join"
         /\ Ends(t) /\ calls'[t].outcome = "ok")
            => Len(calls'[t].result.value) = Len(calls[t].data)]_vars

-----------------------------------------------------------------------------
(* Properties of concurrent reads, under ReadsSpec *)

\* the two calls are calls of one operation that were given the same
\* responses by the server
SameResponses(f, g) ==
    /\ f.op = g.op /\ f.nreq = g.nreq
    /\ f.response = g.response /\ f.fetch = g.fetch /\ f.data = g.data

\* C21: reads that run concurrently on an enriched session do not disturb
\* each other: no step of a read changes the session or the frame of the
\* other task; no read raises a session-state error; and two calls of one
\* operation that were given the same responses end in the same outcome
\* with the same result, however their steps were interleaved.
C21_ConcurrentReadsSafe ==
    [][/\ session' = session
       /\ \A t \in Tasks : \A u \in Tasks \ {t} :
            calls'[t] # calls[t] => calls'[u] = calls[u]
       /\ \A t \in Tasks :
            calls'[t].outcome \notin
                {"ConfigNotLoaded", "AttributeError", "NotAuthenticated"}
       /\ \A t \in Tasks, u \in Tasks :
            (/\ calls'[t].pc = "done" /\ calls'[u].pc = "done"
             /\ SameResponses(calls'[t], calls'[u]))
                => /\ calls'[t].outcome = calls'[u].outcome
                   /\ calls'[t].result = calls'[u].result]_vars

\* two get_orders calls ran side by side, their fetches answered in
\* opposite orders with the same responses, and both returned the same pair
C21_Witness ==
    /\ calls["t1"].op = "get_orders" /\ calls["t1"].outcome = "ok"
    /\ calls["t2"].op = "get_orders" /\ calls["t2"].outcome = "ok"
    /\ calls["t1"].arrived = <<1, 2>> /\ calls["t2"].arrived = <<2, 1>>
    /\ calls["t1"].fetch = calls["t2"].fetch
    /\ calls["t1"].result = calls["t2"].result
    /\ session = EnrichedSession

-----------------------------------------------------------------------------
(* Termination, under LiveSpec *)

\* C23: there is no timeout and no cancellation.  When every request is
\* answered in the end, every call of login, get_config, get_client_info,
\* get_orders and get_transactions returns or raises in the end.  A running
\* call moves only when a response to one of its requests arrives (or its
\* gathered builders run), so a call whose request is never answered never
\* completes; get_orders ends only when a fetch has failed or both fetches
\* have been answered.
C23_NoTimeoutNoCancellation ==
    /\ \A t \in LiveTasks : Running(t) ~> (calls[t].pc = "done")
    /\ [][\A t \in LiveTasks :
            (Running(t) /\ calls'[t] # calls[t])
                => /\ Respond(t)
                   /\ (calls[t].op = "get_orders" /\ Ends(t))
                        => \/ ~Accepted(calls'[t].response)
                           \/ Len(calls'[t].arrived) = 2]_vars

\* get_orders is pending: one of its fetches has been answered with an
\* accepted response, the other has not been answered
C23_Witness ==
    \E t \in Tasks :
        /\ calls[t].op = "get_orders" /\ calls[t].pc = "gather"
        /\ Len(calls[t].arrived) = 1
        /\ Accepted(calls[t].response)
        /\ \E i \in 1..2 : calls[t].fetch[i] = Pending

-----------------------------------------------------------------------------
(* Properties of the lists get_orders returns, under OrdersSpec *)

\* the k-th order of `orders` is the k-th record of `rows`, its productId
\* as a string and its side code translated
OrdersMirror(orders, rows) ==
    /\ Len(orders) = Len(rows)
    /\ \A k \in 1..Len(rows) :
        /\ orders[k].productId = str(rows[k].productId)
        /\ rows[k].buysell \in {"B", "S"}
        /\ orders[k].buysell = (IF rows[k].buysell = "B" THEN "BUY" ELSE "SELL")

\* C31: when get_orders returns, its first list holds one Order per record
\* of the current-orders response and its second list one Order per record
\* of the history response, each in the order of the wire, with productId
\* as a string and buysell translated; no record of one response is in the
\* list of the other.
C31_OrdersKeepCountAndOrder ==
    \A t \in Tasks :
        (calls[t].op = "get_orders" /\ calls[t].outcome = "ok")
            => /\ Len(calls[t].result.value) = 2
               /\ OrdersMirror(calls[t].result.value[1],
                               calls[t].fetch[1].data.orders.value)
               /\ OrdersMirror(calls[t].result.value[2],
                               calls[t].fetch[2].data.data)

\* get_orders has returned two current orders and one historical order that
\* differ in product and side, each list as its response listed them
C31_Witness ==
    \E t \in Tasks :
        /\ calls[t].op = "get_orders" /\ calls[t].outcome = "ok"
        /\ calls[t].fetch[1].data.orders.value =
                <<OrderRow(1, 1, "B"), OrderRow(2, 2, "S")>>
        /\ calls[t].fetch[2].data.data = <<OrderRow(1, 2, "B")>>
        /\ calls[t].result.value =
                <<<<[productId |-> str(1), buysell |-> "BUY"],
                    [productId |-> str(2), buysell |-> "SELL"]>>,
                  <<[productId |-> str(2), buysell |-> "BUY"]>>>>

-----------------------------------------------------------------------------
(* Equivalence of webapi/login.py and webapi/webapi.py, under TwinSpec *)

\* C32: run side by side on the same credentials, session and responses, the
\* call of login.py and the call of webapi.py (login, get_config,
\* get_client_info, with _check_active_session) have sent the same requests
\* in the same order, stand at the same point, end in the same outcome and
\* leave the same session.
C32_CopiesEquivalent ==
    /\ calls["t2"].op = calls["t1"].op
    /\ calls["t2"].pc = calls["t1"].pc
    /\ calls["t2"].reqs = calls["t1"].reqs
    /\ calls["t2"].nreq = calls["t1"].nreq
    /\ calls["t2"].mfa = calls["t1"].mfa
    /\ calls["t2"].outcome = calls["t1"].outcome
    /\ calls["t2"].response = calls["t1"].response
    /\ calls["t2"].args = session

\* both copies have returned from a challenged login after two requests,
\* each having stored the session cookie in a session enriched before
C32_Witness ==
    /\ calls["t1"].op = "login" /\ calls["t1"].outcome = "ok"
    /\ calls["t2"].op = "login" /\ calls["t2"].outcome = "ok"
    /\ calls["t1"].mfa /\ calls["t2"].nreq = 2
    /\ session.cookies = JarOf("sidB")
    /\ calls["t2"].args = [EnrichedSession EXCEPT !.cookies = JarOf("sidB")]

====
